---- MODULE Spec2Model ----
(***************************************************************************)
(* Model of JobMonitor (src/scrapping.py): the tracked-jobs store          *)
(* (load_existing_data / save_data), the identity function get_job_id,     *)
(* the recency test is_job_new and the reconciliation performed by         *)
(* check_for_new_jobs.                                                     *)
(*                                                                         *)
(* Time is counted in ticks, TicksPerDay ticks to a day.  A timestamp      *)
(* string '%Y-%m-%d %H:%M:%S' is modelled by its tick number; strftime     *)
(* followed by strptime returns the same instant at the resolution of the  *)
(* format, so only the arithmetic on the parsed values is modelled.        *)
(***************************************************************************)
EXTENDS Integers, Sequences, FiniteSets, TLC

VARIABLES
    file,           \* content of tracked_jobs.json (self.jobs_file)
    pc,             \* per process: position of the run
    existing_data,  \* per process: self.existing_data
    loaded_from,    \* per process: store content read by load_existing_data, kept
                    \* until a reconciliation replaces the loaded data
    prev_data,      \* per process: self.existing_data when the last check_for_new_jobs began
    batch,          \* per process: records fetched by the last check_for_new_jobs
    now,            \* per process: datetime.now() of the last check_for_new_jobs
    repeated,       \* per process: the last call came right after a returned call on
                    \* the same monitor, with the same records and the same time
    all_new_jobs,   \* per process: the list check_for_new_jobs returns
    outcome,        \* per process: how the last check_for_new_jobs ended
    save_failed,    \* per process: save_data caught an exception in the last call
    clock,          \* wall clock, in ticks
    cycles,         \* check_for_new_jobs calls started so far
    faults,         \* crashes and I/O failures so far
    last_saver,     \* the process whose save_data last wrote the store (0: none)
    stale,          \* per process: another process wrote the store after this
                    \* one loaded it
    id_in,          \* get_job_id on its own: the two records given to it
    id_out          \* get_job_id on its own: the two ids it returned

conc_vars == <<last_saver, stale>>

id_vars == <<id_in, id_out>>

vars == <<file, pc, existing_data, loaded_from, prev_data, batch, now,
          repeated, all_new_jobs, outcome, save_failed, clock, cycles, faults,
          last_saver, stale, id_in, id_out>>

(***************************************************************************)
(* Bounds                                                                  *)
(***************************************************************************)
MaxBatch == 2       \* records fetched in one cycle, all sources together
MaxCycles == 2      \* check_for_new_jobs calls in one behaviour
MaxFaults == 1      \* crashes and I/O failures in one behaviour
TicksPerDay == 2    \* resolution of the clock

(***************************************************************************)
(* Program constants                                                       *)
(***************************************************************************)
NewDays == 7        \* is_job_new: days_old < 7
None == -1          \* Python None (metadata.last_updated of an empty snapshot)

Procs == {1, 2}     \* monitor processes that may run against the same store
MainProcs == {1}    \* the single scheduled run of main()

(***************************************************************************)
(* Raw job records, as the fetch layer builds them.                        *)
(***************************************************************************)
Triples == { <<"A", "B_C", "D">>, <<"A_B", "C", "E">> }

FetchedJob(t, fetched_at) ==
    [company |-> t[1], title |-> t[2], department |-> t[3],
     location |-> "", link |-> "", found_date |-> fetched_at]

\* hashlib.md5(...).hexdigest(), taken as injective on its argument
md5(s) == "md5:" \o s

get_job_id(job) ==
    md5(job.company \o "_" \o job.title \o "_" \o job.department)

\* (datetime.now() - found).days: whole days, rounded towards minus infinity
days_old(found, t) == (t - found) \div TicksPerDay

is_job_new_late(found_date, t) == days_old(found_date, t) < NewDays + 1

is_job_new(found_date, t) == days_old(found_date, t) < NewDays

(***************************************************************************)
(* Dictionaries are functions; {**a, **b} lets b override a.               *)
(***************************************************************************)
Merge(a, b) ==
    [k \in (DOMAIN a) \cup (DOMAIN b) |-> IF k \in DOMAIN b THEN b[k] ELSE a[k]]

Range(s) == { s[i] : i \in 1..Len(s) }

EmptyMetadata ==
    [last_updated |-> None, total_jobs |-> 0,
     companies_count |-> 0, departments_count |-> 0]

EmptySnapshot == [kind |-> "snapshot", jobs |-> <<>>, metadata |-> EmptyMetadata]

(***************************************************************************)
(* Store contents.  A store is absent, unparseable text (kinds "garbage",  *)
(* "empty" and "partial"), or a parsed JSON value: a value that is not an  *)
(* object ("nonobject"), a legacy mapping id -> record ("legacy"), an      *)
(* object whose 'jobs' is not a list of tracked jobs ("badjobs"), or a     *)
(* snapshot {jobs, metadata} ("snapshot").                                 *)
(***************************************************************************)
Absent == [kind |-> "absent"]
Garbage == [kind |-> "garbage"]
Empty == [kind |-> "empty"]
Partial == [kind |-> "partial"]
NonObject == [kind |-> "nonobject"]
BadJobs == [kind |-> "badjobs"]

Unparseable == {"garbage", "empty", "partial"}

LegacyEntry(t) ==
    [key |-> get_job_id(FetchedJob(t, 0)), is_dict |-> TRUE, value |-> FetchedJob(t, 0)]

LegacyOne == [kind |-> "legacy", entries |-> << LegacyEntry(<<"A", "B_C", "D">>) >>]

LegacyTwo ==
    [kind |-> "legacy",
     entries |-> << LegacyEntry(<<"A", "B_C", "D">>), LegacyEntry(<<"A_B", "C", "E">>) >>]

LegacyBadValue ==
    [kind |-> "legacy",
     entries |-> << LegacyEntry(<<"A", "B_C", "D">>),
                    [key |-> "k", is_dict |-> FALSE, value |-> <<>>] >>]

InitialStores ==
    {Absent, Garbage, NonObject, BadJobs, LegacyOne, LegacyTwo, LegacyBadValue}

(***************************************************************************)
(* load_existing_data                                                      *)
(***************************************************************************)
migrate_job(entry, t) ==
    Merge(Merge([id |-> entry.key], entry.value),
          [is_active |-> TRUE, is_new |-> FALSE, last_seen |-> t])

migrate(entries, t) ==
    LET migrated_jobs == [i \in 1..Len(entries) |-> migrate_job(entries[i], t)]
    IN  [kind |-> "snapshot",
         jobs |-> migrated_jobs,
         metadata |->
            [last_updated |-> t,
             total_jobs |-> Len(migrated_jobs),
             companies_count |->
                Cardinality({ migrated_jobs[i].company : i \in 1..Len(migrated_jobs) }),
             departments_count |->
                Cardinality({ migrated_jobs[i].department : i \in 1..Len(migrated_jobs) })]]

load_existing_data(f, t) ==
    CASE f.kind = "absent" -> EmptySnapshot
      [] f.kind \in Unparseable -> EmptySnapshot
      [] f.kind = "legacy" ->
            IF \A i \in 1..Len(f.entries) : f.entries[i].is_dict
            THEN migrate(f.entries, t)
            ELSE EmptySnapshot
      [] OTHER -> f

(***************************************************************************)
(* check_for_new_jobs: the reconciliation                                  *)
(***************************************************************************)
\* keys of {job['id']: job for job in jobs}, in insertion order
RECURSIVE dict_keys(_)
dict_keys(jobs) ==
    IF jobs = <<>> THEN <<>>
    ELSE LET front == dict_keys(SubSeq(jobs, 1, Len(jobs) - 1))
             last == jobs[Len(jobs)].id
         IN  IF last \in Range(front) THEN front ELSE Append(front, last)

\* value of {job['id']: job for job in jobs}[job_id]: the last job with that id
dict_value(jobs, job_id) ==
    jobs[CHOOSE i \in 1..Len(jobs) :
            /\ jobs[i].id = job_id
            /\ \A k \in (i + 1)..Len(jobs) : jobs[k].id # job_id]

known_never(ids, job_id) == FALSE

known(ids, job_id) == job_id \in ids

seen_again(existing_job, t) ==
    Merge(existing_job,
          [last_seen |-> t, is_active |-> TRUE,
           is_new |-> is_job_new(existing_job.found_date, t)])

first_seen(job, t) ==
    Merge(Merge([id |-> get_job_id(job)], job),
          [is_active |-> TRUE, is_new |-> TRUE, last_seen |-> t])

track(jobs, job, t) ==
    IF known(Range(dict_keys(jobs)), get_job_id(job))
    THEN seen_again(dict_value(jobs, get_job_id(job)), t)
    ELSE first_seen(job, t)

not_seen_keep_new(job) ==
    IF job.is_active THEN Merge(job, [is_active |-> FALSE]) ELSE job

not_seen(job) ==
    Merge(IF job.is_active THEN Merge(job, [is_active |-> FALSE]) ELSE job,
          [is_new |-> FALSE])

current_run_job_ids(records) == { get_job_id(records[i]) : i \in 1..Len(records) }

observed_jobs(jobs, records, t) ==
    [i \in 1..Len(records) |-> track(jobs, records[i], t)]

new_jobs(jobs, records, t) ==
    LET is_first(i) == ~known(Range(dict_keys(jobs)), get_job_id(records[i]))
        RECURSIVE pick(_)
        pick(n) ==
            IF n = 0 THEN <<>>
            ELSE IF is_first(n)
                 THEN Append(pick(n - 1), first_seen(records[n], t))
                 ELSE pick(n - 1)
    IN  pick(Len(records))

unobserved_jobs(jobs, records) ==
    LET keys == dict_keys(jobs)
        RECURSIVE rest(_)
        rest(n) ==
            IF n = 0 THEN <<>>
            ELSE IF keys[n] \notin current_run_job_ids(records)
                 THEN Append(rest(n - 1), not_seen(dict_value(jobs, keys[n])))
                 ELSE rest(n - 1)
    IN  rest(Len(keys))

all_current_jobs(jobs, records, t) ==
    observed_jobs(jobs, records, t) \o unobserved_jobs(jobs, records)

metadata_of_every_job(jobs, t) ==
    LET active == { i \in 1..Len(jobs) : jobs[i].is_active }
    IN  [last_updated |-> t,
         total_jobs |-> Len(jobs),
         active_jobs |-> Cardinality(active),
         inactive_jobs |-> Len(jobs) - Cardinality(active),
         new_jobs |-> Cardinality({ i \in 1..Len(jobs) : jobs[i].is_new }),
         companies_count |-> Cardinality({ jobs[i].company : i \in 1..Len(jobs) }),
         departments_count |-> Cardinality({ jobs[i].department : i \in 1..Len(jobs) })]

metadata_of(jobs, t) ==
    LET active == { i \in 1..Len(jobs) : jobs[i].is_active }
    IN  [last_updated |-> t,
         total_jobs |-> Len(jobs),
         active_jobs |-> Cardinality(active),
         inactive_jobs |-> Len(jobs) - Cardinality(active),
         new_jobs |-> Cardinality({ i \in 1..Len(jobs) : jobs[i].is_new }),
         companies_count |-> Cardinality({ jobs[i].company : i \in active }),
         departments_count |-> Cardinality({ jobs[i].department : i \in active })]

reconcile(jobs, records, t) ==
    LET current == all_current_jobs(jobs, records, t)
    IN  [kind |-> "snapshot", jobs |-> current, metadata |-> metadata_of(current, t)]

(***************************************************************************)
(* Inputs of one cycle: what the fetch layer returns for all configured    *)
(* companies, concatenated in configuration order; every record carries    *)
(* the time of its fetch as found_date.                                    *)
(***************************************************************************)
Batches(fetched_at) ==
    UNION { [1..n -> { FetchedJob(tr, fetched_at) : tr \in Triples }] : n \in 0..MaxBatch }

\* <<time since the previous cycle, time between the fetch and the
\* reconciliation>>: a cycle right after the previous one, with or without a
\* delay after the fetch, or a cycle a full recency window later
TimeSteps == { <<0, 0>>, <<0, 1>>, <<NewDays * TicksPerDay, 0>> }

NoData == [kind |-> "none"]

\* two records with the same (company, title, department)
SameRole(a, b) ==
    a.company = b.company /\ a.title = b.title /\ a.department = b.department

\* two fetches that returned the same records (found_date aside)
SameRecords(a, b) ==
    /\ Len(a) = Len(b)
    /\ \A i \in 1..Len(a) :
          /\ SameRole(a[i], b[i])
          /\ a[i].location = b[i].location
          /\ a[i].link = b[i].link

Fresh(v, p, x) == [v EXCEPT ![p] = x]

(***************************************************************************)
(* Initial state: no monitor is running; the store is absent or was left   *)
(* by an earlier version or by something else.                             *)
(***************************************************************************)
Init ==
    /\ file \in InitialStores
    /\ pc = [p \in Procs |-> "idle"]
    /\ existing_data = [p \in Procs |-> NoData]
    /\ loaded_from = [p \in Procs |-> NoData]
    /\ prev_data = [p \in Procs |-> NoData]
    /\ batch = [p \in Procs |-> <<>>]
    /\ now = [p \in Procs |-> 0]
    /\ repeated = [p \in Procs |-> FALSE]
    /\ all_new_jobs = [p \in Procs |-> <<>>]
    /\ outcome = [p \in Procs |-> "none"]
    /\ save_failed = [p \in Procs |-> FALSE]
    /\ clock = 0
    /\ cycles = 0
    /\ faults = 0
    /\ last_saver = 0
    /\ stale = [p \in Procs |-> FALSE]
    /\ id_in = <<>>
    /\ id_out = <<>>

\* the in-memory state of a process that is not running
Forget(p) ==
    /\ existing_data' = Fresh(existing_data, p, NoData)
    /\ loaded_from' = Fresh(loaded_from, p, NoData)
    /\ prev_data' = Fresh(prev_data, p, NoData)
    /\ batch' = Fresh(batch, p, <<>>)
    /\ now' = Fresh(now, p, 0)
    /\ repeated' = Fresh(repeated, p, FALSE)
    /\ all_new_jobs' = Fresh(all_new_jobs, p, <<>>)
    /\ outcome' = Fresh(outcome, p, "none")
    /\ save_failed' = Fresh(save_failed, p, FALSE)
    /\ stale' = Fresh(stale, p, FALSE)

\* JobMonitor.__init__: monitor = JobMonitor()
Construct(p) ==
    /\ pc[p] = "idle"
    /\ pc' = Fresh(pc, p, "ready")
    /\ existing_data' = Fresh(existing_data, p, load_existing_data(file, clock))
    /\ loaded_from' = Fresh(loaded_from, p, file)
    /\ stale' = Fresh(stale, p, FALSE)
    /\ UNCHANGED <<file, prev_data, batch, now, repeated, all_new_jobs, outcome,
                   save_failed, clock, cycles, faults, last_saver>>
    /\ UNCHANGED id_vars

\* check_for_new_jobs, line 291, on data that is not a snapshot: the
\* subscript or the iteration raises and the call ends there
CheckRaises(p) ==
    /\ pc[p] = "ready"
    /\ cycles < MaxCycles
    /\ existing_data[p].kind # "snapshot"
    /\ outcome' = Fresh(outcome, p, "raised")
    /\ prev_data' = Fresh(prev_data, p, existing_data[p])
    /\ all_new_jobs' = Fresh(all_new_jobs, p, <<>>)
    /\ save_failed' = Fresh(save_failed, p, FALSE)
    /\ cycles' = cycles + 1
    /\ UNCHANGED <<file, pc, existing_data, loaded_from, batch, now, repeated,
                   clock, faults>>
    /\ UNCHANGED <<conc_vars, id_vars>>

\* check_for_new_jobs, lines 291-359: fetch and reconcile
Check(p) ==
    /\ pc[p] = "ready"
    /\ cycles < MaxCycles
    /\ existing_data[p].kind = "snapshot"
    /\ \E step \in TimeSteps :
         \E records \in Batches(clock + step[1]) :
            LET t == clock + step[1] + step[2]
                jobs == existing_data[p].jobs
            IN  /\ existing_data' = Fresh(existing_data, p, reconcile(jobs, records, t))
                /\ all_new_jobs' = Fresh(all_new_jobs, p, new_jobs(jobs, records, t))
                /\ batch' = Fresh(batch, p, records)
                /\ now' = Fresh(now, p, t)
                /\ repeated' = Fresh(repeated, p,
                                     /\ outcome[p] = "returned"
                                     /\ SameRecords(records, batch[p])
                                     /\ t = now[p])
                /\ clock' = t
    /\ prev_data' = Fresh(prev_data, p, existing_data[p])
    /\ loaded_from' = Fresh(loaded_from, p, NoData)
    /\ outcome' = Fresh(outcome, p, "running")
    /\ save_failed' = Fresh(save_failed, p, FALSE)
    /\ pc' = Fresh(pc, p, "saving")
    /\ cycles' = cycles + 1
    /\ UNCHANGED <<file, faults>>
    /\ UNCHANGED <<conc_vars, id_vars>>

\* the rest of check_for_new_jobs after save_data: summary and return
Return(p, failed) ==
    /\ pc' = Fresh(pc, p, "ready")
    /\ outcome' = Fresh(outcome, p, "returned")
    /\ save_failed' = Fresh(save_failed, p, failed)

\* save_data, line 84: open(self.jobs_file, 'w') truncates the store
SaveOpen(p) ==
    /\ pc[p] = "saving"
    /\ file' = Empty
    /\ pc' = Fresh(pc, p, "writing")
    /\ UNCHANGED <<existing_data, loaded_from, prev_data, batch, now, repeated,
                   all_new_jobs, outcome, save_failed, clock, cycles, faults>>
    /\ UNCHANGED <<conc_vars, id_vars>>

\* save_data, line 84 raises (no permission): caught at line 87
SaveOpenFails(p) ==
    /\ pc[p] = "saving"
    /\ faults < MaxFaults
    /\ faults' = faults + 1
    /\ Return(p, TRUE)
    /\ UNCHANGED <<file, existing_data, loaded_from, prev_data, batch, now,
                   repeated, all_new_jobs, clock, cycles>>
    /\ UNCHANGED <<conc_vars, id_vars>>

SaveWrite_nothing_written(p) ==
    /\ pc[p] = "writing"
    /\ file' = file
    /\ Return(p, FALSE)
    /\ last_saver' = p
    /\ stale' = [q \in Procs |-> IF q # p /\ pc[q] # "idle" THEN TRUE ELSE stale[q]]
    /\ UNCHANGED <<existing_data, loaded_from, prev_data, batch, now, repeated,
                   all_new_jobs, clock, cycles, faults>>
    /\ UNCHANGED id_vars

\* save_data, line 85: json.dump writes the whole snapshot
SaveWrite(p) ==
    /\ pc[p] = "writing"
    /\ file' = existing_data[p]
    /\ Return(p, FALSE)
    /\ last_saver' = p
    /\ stale' = [q \in Procs |-> IF q # p /\ pc[q] # "idle" THEN TRUE ELSE stale[q]]
    /\ UNCHANGED <<existing_data, loaded_from, prev_data, batch, now, repeated,
                   all_new_jobs, clock, cycles, faults>>
    /\ UNCHANGED id_vars

\* save_data, line 85 raises part-way (disk full): caught at line 87
SaveWriteFails(p) ==
    /\ pc[p] = "writing"
    /\ faults < MaxFaults
    /\ faults' = faults + 1
    /\ file' = Partial
    /\ Return(p, TRUE)
    /\ UNCHANGED <<existing_data, loaded_from, prev_data, batch, now, repeated,
                   all_new_jobs, clock, cycles>>
    /\ UNCHANGED <<conc_vars, id_vars>>

\* the process is killed between the reconciliation and the end of save_data
Crash(p) ==
    /\ pc[p] \in {"saving", "writing"}
    /\ faults < MaxFaults
    /\ faults' = faults + 1
    /\ pc' = Fresh(pc, p, "idle")
    /\ Forget(p)
    /\ UNCHANGED <<file, clock, cycles, last_saver>>
    /\ UNCHANGED id_vars

\* main() returns and the process ends
Exit(p) ==
    /\ pc[p] = "ready"
    /\ outcome[p] # "none"
    /\ pc' = Fresh(pc, p, "idle")
    /\ Forget(p)
    /\ UNCHANGED <<file, clock, cycles, faults, last_saver>>
    /\ UNCHANGED id_vars

Next ==
    \E p \in MainProcs :
        \/ Construct(p)
        \/ CheckRaises(p)
        \/ Check(p)
        \/ SaveOpen(p)
        \/ SaveOpenFails(p)
        \/ SaveWrite(p)
        \/ SaveWriteFails(p)
        \/ Crash(p)
        \/ Exit(p)

Spec == Init /\ [][Next]_vars

(***************************************************************************)
(* Vocabulary of the properties                                            *)
(***************************************************************************)
\* the last check_for_new_jobs of p has reconciled prev_data[p] with batch[p] at now[p]
Reconciled(p) == outcome[p] \in {"running", "returned"}

Snapshot(p) == existing_data[p].jobs

Previous(p) == prev_data[p].jobs

Ids(jobs) == { jobs[i].id : i \in 1..Len(jobs) }

Entries(jobs, id) == { i \in 1..Len(jobs) : jobs[i].id = id }

ObservedIds(p) == { get_job_id(batch[p][i]) : i \in 1..Len(batch[p]) }

\* found_date lies less than seven days before t
WithinWindow(found_date, t) == t - found_date < NewDays * TicksPerDay

\* C1: after check_for_new_jobs the jobs list of the snapshot holds every id
\* at most once, whatever the previous snapshot and the fetched records.
C1_NoDuplicateIds ==
    \A p \in Procs :
        Reconciled(p) =>
            \A id \in Ids(Snapshot(p)) : Cardinality(Entries(Snapshot(p), id)) = 1

\* C2: a job that was active in the previous snapshot and whose identity no
\* fetched record produced is still in the snapshot, inactive and not new.
C2_Disappearance ==
    \A p \in Procs :
        Reconciled(p) =>
            \A i \in 1..Len(Previous(p)) :
                LET J == Previous(p)[i]
                IN  (J.is_active /\ J.id \notin ObservedIds(p)) =>
                        /\ Entries(Snapshot(p), J.id) # {}
                        /\ \A k \in Entries(Snapshot(p), J.id) :
                              /\ SameRole(Snapshot(p)[k], J)
                              /\ Snapshot(p)[k].found_date = J.found_date
                              /\ ~Snapshot(p)[k].is_active
                              /\ ~Snapshot(p)[k].is_new

C2_Witness ==
    \E p \in Procs :
        /\ Reconciled(p)
        /\ batch[p] # <<>>
        /\ \E i \in 1..Len(Previous(p)) :
              /\ Previous(p)[i].is_active
              /\ Previous(p)[i].is_new
              /\ Previous(p)[i].id \notin ObservedIds(p)

\* C3: an inactive job of the previous snapshot whose (company, title,
\* department) is fetched again becomes active, keeps its found_date, gets
\* last_seen = now, and the snapshot holds exactly one entry with its id.
C3_Reappearance ==
    \A p \in Procs :
        Reconciled(p) =>
            \A i \in 1..Len(Previous(p)) :
                LET J == Previous(p)[i]
                IN  (~J.is_active /\ \E n \in 1..Len(batch[p]) : SameRole(batch[p][n], J)) =>
                        /\ Cardinality(Entries(Snapshot(p), J.id)) = 1
                        /\ \A k \in Entries(Snapshot(p), J.id) :
                              /\ Snapshot(p)[k].is_active
                              /\ Snapshot(p)[k].found_date = J.found_date
                              /\ Snapshot(p)[k].last_seen = now[p]

\* C4: the returned list holds exactly one entry per identity observed in
\* the cycle and absent from the previous snapshot, and nothing else (so a
\* job of an earlier cycle that is still new is not in it).
C4_NewlyAddedExact ==
    \A p \in Procs :
        Reconciled(p) =>
            LET added == ObservedIds(p) \ Ids(Previous(p))
            IN  /\ \A id \in added : Cardinality(Entries(all_new_jobs[p], id)) = 1
                /\ Ids(all_new_jobs[p]) \subseteq added

\* C5: reconciling the same records twice in a row at the same time (the
\* second call starting from the snapshot the first one left) leaves
\* total_jobs and active_jobs as the first run left them, and the second run
\* returns no newly added job.
C5_Idempotence ==
    \A p \in Procs :
        repeated[p] =>
            /\ existing_data[p].metadata.total_jobs = prev_data[p].metadata.total_jobs
            /\ existing_data[p].metadata.active_jobs = prev_data[p].metadata.active_jobs
            /\ all_new_jobs[p] = <<>>

C5_Witness ==
    \E p \in Procs :
        /\ repeated[p]
        /\ Len(batch[p]) = 2
        /\ existing_data[p].metadata.total_jobs > existing_data[p].metadata.active_jobs

\* C6: at every point of save_data the store holds a complete snapshot,
\* never an empty or a partly written file.
C6_SaveAtomic == file.kind \notin {"empty", "partial"}

\* C7: a call whose save_data failed does not return normally to its caller.
C7_PersistFailureFatal ==
    \A p \in Procs : save_failed[p] => outcome[p] # "returned"

\* the monitor of p has just been constructed from the store loaded_from[p]
JustLoaded(p) == pc[p] = "ready" /\ outcome[p] = "none"

\* C8: loading a legacy store of N records gives N jobs, each active, not
\* new and with its legacy key as id, and metadata with total_jobs = N and
\* active_jobs = N.
C8_LegacyMigration ==
    \A p \in Procs :
        (/\ JustLoaded(p)
         /\ loaded_from[p].kind = "legacy"
         /\ \A i \in 1..Len(loaded_from[p].entries) : loaded_from[p].entries[i].is_dict) =>
            LET entries == loaded_from[p].entries
                N == Len(entries)
                data == existing_data[p]
            IN  /\ data.kind = "snapshot"
                /\ Len(data.jobs) = N
                /\ \A i \in 1..N :
                      /\ data.jobs[i].is_active
                      /\ ~data.jobs[i].is_new
                      /\ data.jobs[i].id = entries[i].key
                /\ "total_jobs" \in DOMAIN data.metadata
                /\ data.metadata.total_jobs = N
                /\ "active_jobs" \in DOMAIN data.metadata
                /\ data.metadata.active_jobs = N

\* a store that is unreadable or is not a valid snapshot
Corrupt(f) ==
    \/ f.kind \in Unparseable \cup {"nonobject", "badjobs"}
    \/ /\ f.kind = "legacy"
       /\ \E i \in 1..Len(f.entries) : ~f.entries[i].is_dict

\* C9: from a corrupt store the monitor starts with the empty snapshot and
\* the following check_for_new_jobs does not raise.
C9_CorruptStateRecovery ==
    \A p \in Procs :
        (pc[p] # "idle" /\ Corrupt(loaded_from[p])) =>
            /\ JustLoaded(p) => existing_data[p] = EmptySnapshot
            /\ outcome[p] # "raised"

\* C10 as stated: after a reconciliation every job, observed or not, has
\* is_new true exactly when its found_date is within seven days of now.
C10_IsNewIffRecent ==
    \A p \in Procs :
        Reconciled(p) =>
            \A i \in 1..Len(Snapshot(p)) :
                Snapshot(p)[i].is_new <=> WithinWindow(Snapshot(p)[i].found_date, now[p])

\* C10 as amended: after a reconciliation a job has is_new true exactly when
\* it was observed in this cycle and its found_date is within seven days of
\* now; a job not observed in the cycle has is_new false.
C10_IsNewIffObservedAndRecent ==
    \A p \in Procs :
        Reconciled(p) =>
            \A i \in 1..Len(Snapshot(p)) :
                Snapshot(p)[i].is_new <=>
                    /\ Snapshot(p)[i].id \in ObservedIds(p)
                    /\ WithinWindow(Snapshot(p)[i].found_date, now[p])

C10_Witness ==
    \E p \in Procs :
        /\ Reconciled(p)
        /\ \E i, k \in 1..Len(Snapshot(p)) :
              /\ Snapshot(p)[i].id \in ObservedIds(p)
              /\ ~WithinWindow(Snapshot(p)[i].found_date, now[p])
              /\ Snapshot(p)[k].id \notin ObservedIds(p)
              /\ WithinWindow(Snapshot(p)[k].found_date, now[p])

(***************************************************************************)
(* get_job_id on its own: two records are drawn, each field from a small   *)
(* set that contains values with the separator in them, and both are       *)
(* given to get_job_id.                                                    *)
(***************************************************************************)
IdRecords ==
    [company : {"A", "A_B"}, title : {"B_C", "C"}, department : {"D", "E"},
     location : {"", "Remote"}, link : {"", "http://x/1"}, found_date : {0, 1}]

InitId ==
    /\ file = Absent
    /\ pc = [p \in Procs |-> "idle"]
    /\ existing_data = [p \in Procs |-> NoData]
    /\ loaded_from = [p \in Procs |-> NoData]
    /\ prev_data = [p \in Procs |-> NoData]
    /\ batch = [p \in Procs |-> <<>>]
    /\ now = [p \in Procs |-> 0]
    /\ repeated = [p \in Procs |-> FALSE]
    /\ all_new_jobs = [p \in Procs |-> <<>>]
    /\ outcome = [p \in Procs |-> "none"]
    /\ save_failed = [p \in Procs |-> FALSE]
    /\ clock = 0
    /\ cycles = 0
    /\ faults = 0
    /\ last_saver = 0
    /\ stale = [p \in Procs |-> FALSE]
    /\ id_in \in IdRecords \X IdRecords
    /\ id_out = <<>>

AssignIds ==
    /\ id_in # <<>>
    /\ id_out = <<>>
    /\ id_out' = << get_job_id(id_in[1]), get_job_id(id_in[2]) >>
    /\ UNCHANGED <<file, pc, existing_data, loaded_from, prev_data, batch, now,
                   repeated, all_new_jobs, outcome, save_failed, clock, cycles,
                   faults, last_saver, stale, id_in>>

NextId == AssignIds

SpecId == InitId /\ [][NextId]_vars

\* C11: get_job_id gives two records the same id exactly when their
\* (company, title, department) are equal, also when the two triples differ
\* only in where the field boundaries fall; location, link and found_date
\* play no part.
C11_IdentityIffSameTriple ==
    id_out # <<>> => ((id_out[1] = id_out[2]) <=> SameRole(id_in[1], id_in[2]))

\* C12: after a reconciliation the metadata is computed from the jobs list
\* alone: total_jobs, active_jobs, inactive_jobs = total - active, new_jobs,
\* and the numbers of distinct companies and departments among the active
\* jobs only.
C12_MetadataFromJobs ==
    \A p \in Procs :
        Reconciled(p) =>
            LET jobs == Snapshot(p)
                md == existing_data[p].metadata
                active == { i \in 1..Len(jobs) : jobs[i].is_active }
            IN  /\ DOMAIN md = {"last_updated", "total_jobs", "active_jobs",
                                "inactive_jobs", "new_jobs", "companies_count",
                                "departments_count"}
                /\ md.last_updated = now[p]
                /\ md.total_jobs = Len(jobs)
                /\ md.active_jobs = Cardinality(active)
                /\ md.inactive_jobs = md.total_jobs - md.active_jobs
                /\ md.new_jobs = Cardinality({ i \in 1..Len(jobs) : jobs[i].is_new })
                /\ md.companies_count = Cardinality({ jobs[i].company : i \in active })
                /\ md.departments_count = Cardinality({ jobs[i].department : i \in active })

C12_Witness ==
    \E p \in Procs :
        /\ Reconciled(p)
        /\ prev_data[p].metadata.total_jobs # existing_data[p].metadata.total_jobs
        /\ \E i, k \in 1..Len(Snapshot(p)) :
              /\ Snapshot(p)[i].is_active
              /\ ~Snapshot(p)[k].is_active
              /\ \A n \in 1..Len(Snapshot(p)) :
                    Snapshot(p)[n].is_active =>
                        /\ Snapshot(p)[n].company # Snapshot(p)[k].company
                        /\ Snapshot(p)[n].department # Snapshot(p)[k].department

\* C13: a job created by the reconciliation for an identity absent from the
\* previous snapshot has found_date equal to the reconciliation time now,
\* the value of its last_seen, whatever found_date the fetched record had.
C13_FoundDateIsNow ==
    \A p \in Procs :
        Reconciled(p) =>
            \A i \in 1..Len(Snapshot(p)) :
                Snapshot(p)[i].id \notin Ids(Previous(p)) =>
                    /\ Snapshot(p)[i].found_date = now[p]
                    /\ Snapshot(p)[i].found_date = Snapshot(p)[i].last_seen

(***************************************************************************)
(* Two monitor runs against the same store, without locking: the steps of  *)
(* the two processes interleave freely.  No crash and no I/O failure.      *)
(***************************************************************************)
InitConc == Init /\ file \in {Absent, LegacyOne}

\* main(): the one call of check_for_new_jobs on the monitor just constructed
MainCheck(p) ==
    /\ outcome[p] = "none"
    /\ Check(p)

NextConc ==
    \E p \in Procs :
        \/ Construct(p)
        \/ MainCheck(p)
        \/ SaveOpen(p)
        \/ SaveWrite(p)

SpecConc == InitConc /\ [][NextConc]_vars

\* both runs have returned, q saved last, and p saved between q's load and
\* q's save
Overlapped(p, q) ==
    /\ p # q
    /\ pc[p] = "ready" /\ outcome[p] = "returned" /\ ~save_failed[p]
    /\ pc[q] = "ready" /\ outcome[q] = "returned" /\ ~save_failed[q]
    /\ last_saver = q
    /\ stale[q]

\* C14: when two runs overlap, the store after both have finished is the
\* snapshot of the run that saved last; a job that only the other run added
\* is not in it.
C14_LastSaverWins ==
    \A p, q \in Procs :
        Overlapped(p, q) =>
            /\ file = existing_data[q]
            /\ \A id \in Ids(all_new_jobs[p]) \ Ids(Snapshot(q)) : id \notin Ids(file.jobs)

C14_Witness ==
    \E p, q \in Procs :
        /\ Overlapped(p, q)
        /\ file.kind = "snapshot"
        /\ \E id \in Ids(all_new_jobs[p]) : id \notin Ids(file.jobs)

====
